---- MODULE Spec2Model ----
(***************************************************************************)
(* Model of beetsplug/fetchart/itunes.py: the Search / Lookup query        *)
(* objects, the request executor, the result dispatcher get(), the result  *)
(* classes Item / Artist / Album / Track with their _set routines, the     *)
(* navigation accessors of Item and the free function lookup().            *)
(*                                                                         *)
(* The remote service is the environment: every HTTP request is answered   *)
(* by a response drawn from a bounded set of responses.                    *)
(***************************************************************************)
EXTENDS Integers, Sequences, FiniteSets, TLC

\* Longest results array the service sends back.
MaxResults == 3

(***************************************************************************)
(* Python values.  None is the empty tuple, a string or a number carries   *)
(* its type, an optional attribute is None or a one-element tuple.         *)
(***************************************************************************)
None == <<>>
Str(s) == <<"str", s>>
Num(n) == <<"int", n>>
Some(v) == <<v>>

\* bool(value) of a string or None option
Truthy(v) == v # None /\ v # Str("")

\* A dict is a function whose DOMAIN is its key set.
EmptyDict == [k \in {} |-> None]
Put(d, k, v) == [x \in (DOMAIN d) \cup {k} |-> IF x = k THEN v ELSE d[x]]

\* Outcome of a call: a returned value or a raised exception.
Ok(v) == [ok |-> TRUE, val |-> v, exc |-> None]
Raise(e) == [ok |-> FALSE, val |-> None, exc |-> e]

ServiceException(type, message) ==
    [exc |-> "ServiceException", type |-> type, message |-> message]
PyError(error, arg) == [exc |-> error, type |-> "", message |-> arg]
KeyError(key) == PyError("KeyError", key)

ITUNES_API_VERSION == Str("2")
COUNTRY == Str("US")

(***************************************************************************)
(* Query construction.                                                     *)
(***************************************************************************)
\* Search.__init__: the _search_terms dict built from the options o.
SearchTerms(o) ==
    LET t0 == Put(Put(Put(EmptyDict, "term", o.query), "country", o.country),
                  "media", o.media)
        t1 == IF Truthy(o.entity) THEN Put(t0, "entity", o.entity) ELSE t0
        t2 == IF Truthy(o.attribute) THEN Put(t1, "attribute", o.attribute) ELSE t1
        t3 == Put(t2, "limit", o.limit)
        t4 == IF o.offset[2] > 0 THEN Put(t3, "offset", o.offset) ELSE t3
        t5 == IF o.order # None THEN Put(t4, "order", o.order) ELSE t4
    IN  Put(Put(Put(t5, "lang", o.lang), "version", o.version),
            "explicit", o.explicit)

\* Lookup.__init__
LookupTerms(o) ==
    LET t0 == Put(EmptyDict, "id", o.id)
        t1 == IF Truthy(o.entity) THEN Put(t0, "entity", o.entity) ELSE t0
        t2 == IF Truthy(o.country) THEN Put(t1, "country", o.country) ELSE t1
    IN  Put(t2, "limit", o.limit)

\* _BaseObject._get_params: a copy of the search terms
get_params(terms) == [k \in DOMAIN terms |-> terms[k]]

(***************************************************************************)
(* Request executor.                                                       *)
(***************************************************************************)
\* _Request._download_response up to the request: every value is
\* stringified if numeric and then .replace()d, which None does not have.
Encodable(params) == \A k \in DOMAIN params : params[k] # None

\* execute with one retry after an HTTPError
executeRetry(params, r) ==
    IF ~Encodable(params)
    THEN [sent |-> 0, res |-> Raise(PyError("AttributeError", "replace"))]
    ELSE [sent |-> IF r.http = "HTTPError" THEN 2 ELSE 1,
          res |-> CASE r.http = "HTTPError" ->
                         Raise(ServiceException("Error", r.text))
                    [] r.http = "invalid" ->
                         Raise(PyError("JSONDecodeError", r.text))
                    [] OTHER -> Ok(r.json)]

\* _Request.execute on the service's answer r.  sent counts the HTTP
\* requests issued.  An HTTPError becomes a ServiceException carrying the
\* error body; a body that does not decode after clean_json raises the
\* decoder's error unchanged.
execute(params, r) ==
    IF ~Encodable(params)
    THEN [sent |-> 0, res |-> Raise(PyError("AttributeError", "replace"))]
    ELSE [sent |-> 1,
          res |-> CASE r.http = "HTTPError" ->
                         Raise(ServiceException("Error", r.text))
                    [] r.http = "invalid" ->
                         Raise(PyError("JSONDecodeError", r.text))
                    [] OTHER -> Ok(r.json)]

(***************************************************************************)
(* Result classes.                                                         *)
(***************************************************************************)
\* Item.__init__ (Artist, Album and Track only forward to it)
NewItem(cls, id) ==
    [cls |-> cls, id |-> id, name |-> None, type |-> None, json |-> None,
     artist |-> None, album |-> None]

\* Item._set taking the wrapperType first, as the dispatcher does
Item_setWrapperFirst(self, json) ==
    IF "wrapperType" \in DOMAIN json
    THEN Ok([self EXCEPT !.json = Some(json), !.type = Some(json.wrapperType)])
    ELSE IF "kind" \in DOMAIN json
    THEN Ok([self EXCEPT !.json = Some(json), !.type = Some(json.kind)])
    ELSE Raise(KeyError("wrapperType"))

\* Item._set: the type tag is the kind if present, else the wrapperType
Item_set(self, json) ==
    IF "kind" \in DOMAIN json
    THEN Ok([self EXCEPT !.json = Some(json), !.type = Some(json.kind)])
    ELSE IF "wrapperType" \in DOMAIN json
    THEN Ok([self EXCEPT !.json = Some(json), !.type = Some(json.wrapperType)])
    ELSE Raise(KeyError("wrapperType"))

\* self.name = json[key] on the outcome s of the inherited _set
SetName(s, json, key) ==
    IF ~s.ok THEN s
    ELSE IF key \notin DOMAIN json THEN Raise(KeyError(key))
    ELSE Ok([s.val EXCEPT !.name = Some(json[key])])

\* Artist._set
Artist_set(self, json) == SetName(Item_set(self, json), json, "artistName")

\* self.artist = Artist(id) once a, the outcome of its _set, is known
AttachArtist(self, a) ==
    IF a.ok THEN Ok([self EXCEPT !.artist = Some(a.val)]) ELSE a

\* Album._set_artist and Track._set_artist: json.get('artistId') is falsy
\* when the key is absent
set_artist(self, json) ==
    IF "artistId" \notin DOMAIN json
    THEN Ok([self EXCEPT !.artist = None])
    ELSE AttachArtist(self, Artist_set(NewItem("Artist", json.artistId), json))

\* Album._set after the name: currency and trackCount are required, then
\* _set_artist runs
AlbumRest(s, json) ==
    IF ~s.ok THEN s
    ELSE IF "currency" \notin DOMAIN json THEN Raise(KeyError("currency"))
    ELSE IF "trackCount" \notin DOMAIN json THEN Raise(KeyError("trackCount"))
    ELSE set_artist(s.val, json)

\* Album._set
Album_set(self, json) ==
    AlbumRest(SetName(Item_set(self, json), json, "collectionName"), json)

\* self.album = Album(id) once a, the outcome of its _set, is known
AttachAlbum(self, a) ==
    IF a.ok THEN Ok([self EXCEPT !.album = Some(a.val)]) ELSE a

\* Track._set_album
set_album(self, json) ==
    IF "collectionId" \notin DOMAIN json
    THEN Ok(self)
    ELSE AttachAlbum(self, Album_set(NewItem("Album", json.collectionId), json))

\* try: ... except KeyError: the attribute becomes None
CaughtArtist(self, a) == IF a.ok THEN a.val ELSE [self EXCEPT !.artist = None]
CaughtAlbum(self, a) == IF a.ok THEN a.val ELSE [self EXCEPT !.album = None]

\* Track._set after the name: _set_artist, then _set_album, each caught
TrackAlbum(self, json) == Ok(CaughtAlbum(self, set_album(self, json)))
TrackRest(s, json) ==
    IF ~s.ok THEN s
    ELSE TrackAlbum(CaughtArtist(s.val, set_artist(s.val, json)), json)

\* Track._set
Track_set(self, json) ==
    TrackRest(SetName(Item_set(self, json), json, "trackName"), json)

(***************************************************************************)
(* Result dispatcher.                                                      *)
(***************************************************************************)
\* The dispatch tag with kind inspected first
DispatchTypeKindFirst(result) ==
    IF "kind" \in DOMAIN result THEN Some(result.kind)
    ELSE IF "wrapperType" \in DOMAIN result THEN Some(result.wrapperType)
    ELSE None

\* The tag get() dispatches on: wrapperType if present, else kind
DispatchType(result) ==
    IF "wrapperType" \in DOMAIN result THEN Some(result.wrapperType)
    ELSE IF "kind" \in DOMAIN result THEN Some(result.kind)
    ELSE None

\* The else branch of get(): id keeps its previous value when the record
\* has neither a collectionId nor an artistId
FallbackId(result, id) ==
    IF "collectionId" \in DOMAIN result THEN Some(result.collectionId)
    ELSE IF "artistId" \in DOMAIN result THEN Some(result.artistId)
    ELSE id

\* Item(id) and item._set(result) of the else branch
FallbackItem(result, id) ==
    IF id = None THEN Raise(PyError("UnboundLocalError", "id"))
    ELSE Item_set(NewItem("Item", id[1]), result)

\* The branch of get() taken for the tag type
DispatchOn(type, result, id) ==
    IF type = Some("artist")
    THEN IF "artistId" \notin DOMAIN result THEN Raise(KeyError("artistId"))
         ELSE Artist_set(NewItem("Artist", result.artistId), result)
    ELSE IF type = Some("collection")
    THEN IF "collectionId" \notin DOMAIN result
         THEN Raise(KeyError("collectionId"))
         ELSE Album_set(NewItem("Album", result.collectionId), result)
    ELSE IF type = Some("track")
    THEN IF "trackId" \notin DOMAIN result THEN Raise(KeyError("trackId"))
         ELSE Track_set(NewItem("Track", result.trackId), result)
    ELSE FallbackItem(result, FallbackId(result, id))

\* One iteration of the loop of get().  id is the loop's local variable id
\* as the previous iterations left it (None while unbound).
Dispatch(result, id) == DispatchOn(DispatchType(result), result, id)

\* The loop of get() inserting each item at the front of the list
RECURSIVE GetLoopPrepend(_, _, _, _)
PrependStep(results, i, l, d) ==
    IF d.ok THEN GetLoopPrepend(results, i + 1, Some(d.val.id), <<d.val>> \o l)
    ELSE d
GetLoopPrepend(results, i, id, l) ==
    IF i > Len(results) THEN Ok(l)
    ELSE PrependStep(results, i, l, Dispatch(results[i], id))

\* The loop of get() from index i on, l the list built so far
RECURSIVE GetLoop(_, _, _, _)
\* l.append(item) and the next iteration, or the exception of this one
LoopStep(results, i, l, d) ==
    IF d.ok THEN GetLoop(results, i + 1, Some(d.val.id), Append(l, d.val))
    ELSE d
GetLoop(results, i, id, l) ==
    IF i > Len(results) THEN Ok(l)
    ELSE LoopStep(results, i, l, Dispatch(results[i], id))

\* The errorMessage test taken only when the envelope has no results
HasErrorWithoutResults(json) ==
    "errorMessage" \in DOMAIN json /\ "results" \notin DOMAIN json

\* get(): 'errorMessage' in self._json_results
HasError(json) == "errorMessage" \in DOMAIN json

\* for result in self._json_results['results']: ...; return l
BuildList(json) ==
    IF "results" \notin DOMAIN json THEN Raise(KeyError("results"))
    ELSE GetLoop(json.results, 1, None, <<>>)

\* The result count stored only if the list res was built
CountLast(x, res) ==
    [sent |-> x.sent,
     num |-> IF res.ok THEN Some(x.res.val.resultCount) ELSE None,
     res |-> res]

\* get() storing the result count only after the whole list is built
GetFromCountLast(x) ==
    IF ~x.res.ok THEN [sent |-> x.sent, num |-> None, res |-> x.res]
    ELSE IF HasError(x.res.val)
    THEN [sent |-> x.sent, num |-> None,
          res |-> Raise(ServiceException("Error", x.res.val.errorMessage))]
    ELSE IF "resultCount" \notin DOMAIN x.res.val
    THEN [sent |-> x.sent, num |-> None, res |-> Raise(KeyError("resultCount"))]
    ELSE CountLast(x, BuildList(x.res.val))

\* get() once the request executor has yielded x.  num is
\* Some(resultCount) when _num_results was assigned, else None.
GetFrom(x) ==
    IF ~x.res.ok THEN [sent |-> x.sent, num |-> None, res |-> x.res]
    ELSE IF HasError(x.res.val)
    THEN [sent |-> x.sent, num |-> None,
          res |-> Raise(ServiceException("Error", x.res.val.errorMessage))]
    ELSE IF "resultCount" \notin DOMAIN x.res.val
    THEN [sent |-> x.sent, num |-> None, res |-> Raise(KeyError("resultCount"))]
    ELSE [sent |-> x.sent, num |-> Some(x.res.val.resultCount),
          res |-> BuildList(x.res.val)]

getCountLast(terms, r) == GetFromCountLast(execute(get_params(terms), r))

\* _BaseObject.get on search terms terms when the service answers r
get(terms, r) == GetFrom(execute(get_params(terms), r))

(***************************************************************************)
(* Navigation accessors of Item and the free function lookup().  Each      *)
(* yields [sent, terms, res]: the requests issued, the search terms of     *)
(* the Lookup it built (None if it built none) and the outcome.            *)
(***************************************************************************)
NothingFound == ServiceException("Error", "Nothing found!")

\* A returned list, and a returned single object
RetList(l) == [list |-> TRUE, items |-> l]
RetObj(o) == [list |-> FALSE, items |-> <<o>>]

NoCall(res) == [sent |-> 0, terms |-> None, res |-> res]

\* The outcome g of the get() of a Lookup built with the search terms terms
Looked(terms, g) == [sent |-> g.sent, terms |-> Some(terms), res |-> g.res]

\* Lookup(...).get() for the options o
LookupGet(terms, r) == Looked(terms, get(terms, r))

\* Lookup(id=self.id, entity=entity, limit=limit).get()
ItemLookup(self, entity, limit, r) ==
    LookupGet(LookupTerms([id |-> Num(self.id), entity |-> Str(entity),
                           country |-> None, limit |-> limit]), r)

\* items[1:] after "if not items: raise", shared by get_tracks and
\* get_music_videos
RestOrNothing(c) ==
    IF ~c.res.ok THEN c
    ELSE IF c.res.val = <<>> THEN [c EXCEPT !.res = Raise(NothingFound)]
    ELSE [c EXCEPT !.res = Ok(RetList(Tail(c.res.val)))]

\* The whole list after "if not items: raise"
AllOrNothing(c) ==
    IF ~c.res.ok THEN c
    ELSE IF c.res.val = <<>> THEN [c EXCEPT !.res = Raise(NothingFound)]
    ELSE [c EXCEPT !.res = Ok(RetList(c.res.val))]

\* get_tracks returning the lookup's list whole
get_tracksKeepFirst(self, limit, r) ==
    IF self.type = Some("song") THEN NoCall(Ok(RetObj(self)))
    ELSE AllOrNothing(ItemLookup(self, "song", limit, r))

\* Item.get_tracks
get_tracks(self, limit, r) ==
    IF self.type = Some("song") THEN NoCall(Ok(RetObj(self)))
    ELSE RestOrNothing(ItemLookup(self, "song", limit, r))

\* Item.get_music_videos
get_music_videos(self, limit, r) ==
    IF self.type = Some("musicVideo") THEN NoCall(Ok(RetObj(self)))
    ELSE RestOrNothing(ItemLookup(self, "musicVideo", limit, r))

\* items[1] after "if not items or len(items) == 1: raise"
SecondOrNothing(c) ==
    IF ~c.res.ok THEN c
    ELSE IF c.res.val = <<>> \/ Len(c.res.val) = 1
    THEN [c EXCEPT !.res = Raise(NothingFound)]
    ELSE [c EXCEPT !.res = Ok(RetObj(c.res.val[2]))]

\* Item.get_album
get_album(self, r) ==
    IF self.type = Some("collection") THEN NoCall(Ok(RetObj(self)))
    ELSE SecondOrNothing(ItemLookup(self, "album", Num(1), r))

\* The slice l[1:], empty for an empty list
Rest(l) == IF l = <<>> THEN <<>> ELSE Tail(l)

\* items = ...get()[1:]; if not items: raise; return items[1:]
RestOfRestOrNothing(c) ==
    IF ~c.res.ok THEN c
    ELSE IF Rest(c.res.val) = <<>> THEN [c EXCEPT !.res = Raise(NothingFound)]
    ELSE [c EXCEPT !.res = Ok(RetList(Rest(Rest(c.res.val))))]

\* Item.get_albums: the lookup's list loses its first element before the
\* emptiness test and one more on return
get_albums(self, limit, r) ==
    IF self.type = Some("collection") THEN NoCall(Ok(RetObj(self)))
    ELSE IF self.type = Some("song") THEN get_album(self, r)
    ELSE RestOfRestOrNothing(ItemLookup(self, "album", limit, r))

\* items[-1] after "if not items: raise"
LastOrNothing(c) ==
    IF ~c.res.ok THEN c
    ELSE IF c.res.val = <<>> THEN [c EXCEPT !.res = Raise(NothingFound)]
    ELSE [c EXCEPT !.res = Ok(RetObj(c.res.val[Len(c.res.val)]))]

\* lookup returning the last result
lookupLast(o, r) == LastOrNothing(LookupGet(LookupTerms(o), r))

\* items[0] after "if not items: raise"
FirstOrNothing(c) ==
    IF ~c.res.ok THEN c
    ELSE IF c.res.val = <<>> THEN [c EXCEPT !.res = Raise(NothingFound)]
    ELSE [c EXCEPT !.res = Ok(RetObj(c.res.val[1]))]

\* lookup(id, entity, country, limit)
lookup(o, r) == FirstOrNothing(LookupGet(LookupTerms(o), r))

(***************************************************************************)
(* Inputs: caller-supplied options and the service's responses.            *)
(***************************************************************************)
\* Search(query) with every other option at its default
DefaultSearch ==
    [query |-> Str("q"), country |-> COUNTRY, media |-> Str("all"),
     entity |-> None, attribute |-> None, offset |-> Num(0),
     limit |-> Num(50), order |-> None, lang |-> Str("en_us"),
     version |-> ITUNES_API_VERSION, explicit |-> Str("Yes")]

\* The default search and the searches that differ from it in one option
SearchOpts ==
    {DefaultSearch}
    \cup {[DefaultSearch EXCEPT !.country = None],
          [DefaultSearch EXCEPT !.entity = Str("album")],
          [DefaultSearch EXCEPT !.entity = Str("")],
          [DefaultSearch EXCEPT !.attribute = Str("albumTerm")],
          [DefaultSearch EXCEPT !.offset = Num(1)],
          [DefaultSearch EXCEPT !.offset = Num(-1)],
          [DefaultSearch EXCEPT !.order = Str("rank")]}

LookupOpts ==
    {[id |-> Num(2), entity |-> e, country |-> c, limit |-> Num(500)] :
        e \in {None, Str(""), Str("song")}, c \in {None, COUNTRY}}

Limits == {Num(500), Num(1)}

\* Result records of the service: a well-formed artist, collection and
\* track, a collection that also carries a kind, a track tagged by kind
\* only whose artist has no name, a track without a name, records of an
\* unknown kind with and without identifiers, and records with neither
\* wrapperType nor kind.
Records ==
    {[wrapperType |-> "artist", artistId |-> 1, artistName |-> "A"],
     [wrapperType |-> "collection", collectionId |-> 2, collectionName |-> "C",
      currency |-> "USD", trackCount |-> 17, artistId |-> 1, artistName |-> "A"],
     [wrapperType |-> "track", kind |-> "song", trackId |-> 3, trackName |-> "T",
      collectionId |-> 2, collectionName |-> "C", currency |-> "USD",
      trackCount |-> 17, artistId |-> 1, artistName |-> "A"],
     [wrapperType |-> "collection", kind |-> "song", collectionId |-> 2,
      collectionName |-> "C", currency |-> "USD", trackCount |-> 17],
     [kind |-> "track", trackId |-> 3, trackName |-> "T", artistId |-> 1],
     [wrapperType |-> "track", trackId |-> 3],
     [kind |-> "podcast", collectionId |-> 2, artistId |-> 1],
     [kind |-> "podcast"],
     [collectionId |-> 2],
     [artistId |-> 1]}

ResultArrays == UNION {[1..n -> Records] : n \in 0..MaxResults}

Envelopes ==
    {[resultCount |-> Len(s), results |-> s] : s \in ResultArrays}
    \cup {[errorMessage |-> "Invalid value(s)", resultCount |-> Len(s),
           results |-> s] : s \in ResultArrays}
    \cup {[errorMessage |-> "Invalid value(s)"]}

NoResponse == [http |-> "none", text |-> "", json |-> EmptyDict]

Responses ==
    {[http |-> "ok", text |-> "", json |-> e] : e \in Envelopes}
    \cup {[http |-> "HTTPError", text |-> "Bad Request", json |-> EmptyDict],
          [http |-> "invalid", text |-> "<html>", json |-> EmptyDict]}

(***************************************************************************)
(* State.                                                                  *)
(***************************************************************************)
VARIABLES
    query,   \* the caller's Search or Lookup object
    op,      \* the operation performed last
    resp,    \* the service's answer to the last operation's request
    sent,    \* HTTP requests the last operation issued
    wire,    \* parameters the last operation handed to the request layer
    out,     \* what the last operation returned or raised
    arg,     \* arguments the caller passed to the last operation
    self     \* the Item the caller holds

vars == <<query, op, resp, sent, wire, out, arg, self>>

\* The caller is between two operations
Idle == op \in {"init", "Search", "Lookup", "resume"}

NoQuery ==
    [cls |-> "none", opts |-> None, terms |-> EmptyDict, num_results |-> None]

Init ==
    /\ query = NoQuery
    /\ op = "init"
    /\ resp = NoResponse
    /\ sent = 0
    /\ wire = None
    /\ out = Ok(None)
    /\ arg = None
    /\ self = None

\* Search(...): Search.__init__ with caller-supplied options
NewSearch ==
    /\ Idle
    /\ \E o \in SearchOpts :
         query' = [cls |-> "Search", opts |-> Some(o), terms |-> SearchTerms(o),
                   num_results |-> None]
    /\ op' = "Search"
    /\ resp' = NoResponse /\ sent' = 0 /\ wire' = None /\ out' = Ok(None)
    /\ arg' = None
    /\ UNCHANGED self

\* Lookup(...): Lookup.__init__ with caller-supplied options
NewLookup ==
    /\ Idle
    /\ \E o \in LookupOpts :
         query' = [cls |-> "Lookup", opts |-> Some(o), terms |-> LookupTerms(o),
                   num_results |-> None]
    /\ op' = "Lookup"
    /\ resp' = NoResponse /\ sent' = 0 /\ wire' = None /\ out' = Ok(None)
    /\ arg' = None
    /\ UNCHANGED self

\* The effect of query.get() when it behaves as g on the answer r
GetDone(g, r) ==
    /\ query' = [query EXCEPT !.num_results = IF g.num # None THEN g.num ELSE @]
    /\ sent' = g.sent
    /\ wire' = Some(get_params(query.terms))
    /\ resp' = IF g.sent = 0 THEN NoResponse ELSE r
    /\ out' = IF g.res.ok THEN Ok(RetList(g.res.val)) ELSE g.res

\* query.get(), answered by some response r of the service
Get ==
    /\ Idle
    /\ query.cls # "none"
    /\ \E r \in Responses : GetDone(get(query.terms, r), r)
    /\ op' = "get"
    /\ arg' = None
    /\ UNCHANGED self

\* The outcome c of a free function or accessor answered by r becomes the
\* last operation
Finish(called, a, c, r) ==
    /\ op' = called
    /\ arg' = a
    /\ sent' = c.sent
    /\ wire' = c.terms
    /\ resp' = IF c.sent = 0 THEN NoResponse ELSE r
    /\ out' = c.res
    /\ UNCHANGED <<query, self>>

\* lookup(id, entity, country, limit)
Lookup ==
    /\ Idle
    /\ \E o \in LookupOpts, r \in Responses :
         Finish("lookup", Some(o), lookup(o, r), r)

\* The operation is over and the caller drops what it returned or raised
Discard ==
    /\ ~Idle
    /\ op' = "resume"
    /\ resp' = NoResponse /\ sent' = 0 /\ wire' = None /\ out' = Ok(None)
    /\ arg' = None
    /\ UNCHANGED <<query, self>>

\* The operation is over and the caller keeps one object of what it returned
Hold ==
    /\ ~Idle
    /\ out.ok
    /\ \E i \in 1..Len(out.val.items) : self' = Some(out.val.items[i])
    /\ op' = "resume"
    /\ resp' = NoResponse /\ sent' = 0 /\ wire' = None /\ out' = Ok(None)
    /\ arg' = None
    /\ UNCHANGED query

\* self.get_tracks(limit)
GetTracks ==
    /\ Idle
    /\ self # None
    /\ \E l \in Limits, r \in Responses :
         Finish("get_tracks", Some(l), get_tracks(self[1], l, r), r)

\* self.get_music_videos(limit)
GetMusicVideos ==
    /\ Idle
    /\ self # None
    /\ \E l \in Limits, r \in Responses :
         Finish("get_music_videos", Some(l), get_music_videos(self[1], l, r), r)

\* self.get_albums(limit)
GetAlbums ==
    /\ Idle
    /\ self # None
    /\ \E l \in Limits, r \in Responses :
         Finish("get_albums", Some(l), get_albums(self[1], l, r), r)

\* self.get_album()
GetAlbum ==
    /\ Idle
    /\ self # None
    /\ \E r \in Responses : Finish("get_album", None, get_album(self[1], r), r)

\* Query objects and their get()
Next ==
    \/ NewSearch
    \/ NewLookup
    \/ Get
    \/ Discard

Spec == Init /\ [][Next]_vars

\* The free function lookup() and the accessors of the items it yields
NextNav ==
    \/ Lookup
    \/ Discard
    \/ Hold
    \/ GetTracks
    \/ GetMusicVideos
    \/ GetAlbums
    \/ GetAlbum

SpecNav == Init /\ [][NextNav]_vars

(***************************************************************************)
(* Properties.                                                             *)
(***************************************************************************)

\* C1: every object get() returns was dispatched on its record's
\* wrapperType if present, otherwise on its kind: 'artist' gives an Artist
\* whose id is the artistId, 'collection' an Album whose id is the
\* collectionId, 'track' a Track whose id is the trackId, any other tag a
\* generic Item.
C1_DispatchByTag ==
    (op = "get" /\ out.ok) =>
        LET results == resp.json.results
            l == out.val.items
        IN  \A i \in 1..Len(l) :
              LET rec == results[i]
                  tag == IF "wrapperType" \in DOMAIN rec THEN rec.wrapperType
                         ELSE IF "kind" \in DOMAIN rec THEN rec.kind
                         ELSE ""
              IN  /\ tag = "artist" =>
                        l[i].cls = "Artist" /\ l[i].id = rec.artistId
                  /\ tag = "collection" =>
                        l[i].cls = "Album" /\ l[i].id = rec.collectionId
                  /\ tag = "track" =>
                        l[i].cls = "Track" /\ l[i].id = rec.trackId
                  /\ tag \notin {"artist", "collection", "track"} =>
                        l[i].cls = "Item"

\* get() returned an Artist, a Track and an Album whose record carries a
\* kind different from its wrapperType
C1_Witness ==
    /\ op = "get" /\ out.ok
    /\ LET results == resp.json.results
           l == out.val.items
       IN  /\ \E i \in 1..Len(l) : l[i].cls = "Artist"
           /\ \E i \in 1..Len(l) : l[i].cls = "Track"
           /\ \E i \in 1..Len(l) :
                /\ l[i].cls = "Album"
                /\ {"wrapperType", "kind"} \subseteq DOMAIN results[i]
                /\ results[i].kind # results[i].wrapperType

\* C2: when every record of the results array has neither wrapperType nor
\* kind but has a collectionId or an artistId, get() returns a generic Item
\* for each, identified by the collectionId if present, else the artistId.
C2_FallbackItem ==
    ( /\ op = "get" /\ resp.http = "ok"
      /\ DOMAIN resp.json = {"resultCount", "results"}
      /\ \A i \in 1..Len(resp.json.results) :
            LET rec == resp.json.results[i]
            IN  /\ "wrapperType" \notin DOMAIN rec /\ "kind" \notin DOMAIN rec
                /\ "collectionId" \in DOMAIN rec \/ "artistId" \in DOMAIN rec )
    => /\ out.ok
       /\ Len(out.val.items) = Len(resp.json.results)
       /\ \A i \in 1..Len(resp.json.results) :
            LET rec == resp.json.results[i]
            IN  /\ out.val.items[i].cls = "Item"
                /\ out.val.items[i].id = IF "collectionId" \in DOMAIN rec
                                         THEN rec.collectionId ELSE rec.artistId

\* C3: when get() returns on an envelope without errorMessage, the list has
\* as many objects as the results array has records and the i-th object was
\* built from the i-th record.
C3_OrderPreserved ==
    (op = "get" /\ out.ok /\ "errorMessage" \notin DOMAIN resp.json) =>
        /\ Len(out.val.items) = Len(resp.json.results)
        /\ \A i \in 1..Len(resp.json.results) :
             out.val.items[i].json = Some(resp.json.results[i])

\* get() returned a list built from three records, no two adjacent alike
C3_Witness ==
    /\ op = "get" /\ out.ok
    /\ Len(out.val.items) = MaxResults
    /\ \A i \in 1..(MaxResults - 1) :
         resp.json.results[i] # resp.json.results[i + 1]

\* C4: when the decoded envelope has an errorMessage, get() raises
\* ServiceException 'Error' with that message, whatever else it carries.
C4_ErrorMessageRaises ==
    (op = "get" /\ resp.http = "ok" /\ "errorMessage" \in DOMAIN resp.json) =>
        out = Raise(ServiceException("Error", resp.json.errorMessage))

\* get() raised on an envelope that has an errorMessage and also a
\* resultCount and a non-empty results array
C4_Witness ==
    /\ op = "get" /\ ~out.ok
    /\ {"errorMessage", "resultCount", "results"} \subseteq DOMAIN resp.json
    /\ resp.json.results # <<>>

\* C5: lookup() on a result envelope whose results array is empty raises
\* ServiceException 'Error' 'Nothing found!'; on a non-empty array it
\* raises that never, and what it returns is the one object built from
\* the first record.
C5_LookupFirstOrNothing ==
    op = "lookup" =>
        LET passed == /\ resp.http = "ok"
                      /\ DOMAIN resp.json = {"resultCount", "results"}
        IN  /\ (passed /\ resp.json.results = <<>>) => out = Raise(NothingFound)
            /\ out = Raise(NothingFound) => (passed /\ resp.json.results = <<>>)
            /\ out.ok =>
                 /\ passed /\ resp.json.results # <<>>
                 /\ ~out.val.list
                 /\ Len(out.val.items) = 1
                 /\ out.val.items[1].json = Some(resp.json.results[1])
            /\ (passed /\ resp.json.results # <<>> /\ ~out.ok) =>
                 out.exc.exc \in {"KeyError", "UnboundLocalError"}

\* lookup() returned the first of several different records
C5_Witness ==
    /\ op = "lookup" /\ out.ok
    /\ Len(resp.json.results) = MaxResults
    /\ resp.json.results[1] # resp.json.results[MaxResults]

C7_NoEmptyParams ==
    query.cls # "none" =>
        /\ \A k \in DOMAIN query.terms : query.terms[k] \notin {None, Str("")}
        /\ \A k \in DOMAIN query.opts[1] :
             query.opts[1][k] = None =>
                (IF k = "query" THEN "term" ELSE k) \notin DOMAIN query.terms

\* C8: a get() issues at most one HTTP request, and exactly one whenever it
\* returns results, raises a ServiceException (HTTP error or errorMessage
\* envelope), or had no None-valued parameter to encode.
C8_OneRequestPerGet ==
    op = "get" =>
        /\ sent <= 1
        /\ (out.ok \/ out.exc.exc = "ServiceException") => sent = 1
        /\ (\A k \in DOMAIN query.terms : query.terms[k] # None) => sent = 1

\* A later get() on a Search that already has a result count raised on an
\* HTTP error after its one request
C8_Witness ==
    /\ op = "get" /\ ~out.ok
    /\ resp.http = "HTTPError"
    /\ query.num_results # None
    /\ sent = 1

\* C9 as claimed: a get() on a Search that raises leaves num_results as it
\* was, and one that returns stores the response's resultCount.
C9_FailedGetKeepsCount ==
    [][(Idle /\ op' = "get" /\ query.cls = "Search") =>
          query'.num_results = IF out'.ok
                               THEN Some(resp'.json.resultCount)
                               ELSE query.num_results]_vars

\* C9: a get() on a Search stores the response's resultCount as soon as the
\* envelope has no errorMessage and carries a resultCount, whether or not
\* building the result objects then fails; any other get() leaves
\* num_results as it was.
C9_CountStoredBeforeBuild ==
    [][(Idle /\ op' = "get" /\ query.cls = "Search") =>
          query'.num_results =
              IF /\ resp'.http = "ok"
                 /\ "errorMessage" \notin DOMAIN resp'.json
                 /\ "resultCount" \in DOMAIN resp'.json
              THEN Some(resp'.json.resultCount)
              ELSE query.num_results]_vars

\* A get() on a Search failed while building an object from a record and
\* num_results is that response's resultCount
C9_Witness ==
    /\ op = "get" /\ query.cls = "Search"
    /\ ~out.ok /\ out.exc.exc = "KeyError"
    /\ resp.http = "ok" /\ DOMAIN resp.json = {"resultCount", "results"}
    /\ resp.json.results # <<>>
    /\ query.num_results = Some(resp.json.resultCount)

\* C10 as claimed: the type of every object an operation hands back, and of
\* the item the caller holds, is its record's wrapperType if present,
\* otherwise its kind; every Album has type 'collection', and get_album()
\* and get_albums() on an Album return it without a request.
C10_TypeIsDispatchTag ==
    LET tag(rec) == IF "wrapperType" \in DOMAIN rec THEN rec.wrapperType
                    ELSE rec.kind
    IN  /\ (~Idle /\ out.ok) =>
              \A i \in 1..Len(out.val.items) :
                 out.val.items[i].type = Some(tag(out.val.items[i].json[1]))
        /\ (self # None /\ self[1].cls = "Album") =>
              self[1].type = Some("collection")
        /\ (op \in {"get_album", "get_albums"} /\ self[1].cls = "Album") =>
              out = Ok(RetObj(self[1])) /\ sent = 0

\* C10: the type of every object an operation hands back is its record's
\* kind if present, otherwise its wrapperType; every Album whose record has
\* no kind has type 'collection', and get_album() and get_albums() on it
\* return it without a request.
C10_TypeIsKindFirst ==
    LET tag(rec) == IF "kind" \in DOMAIN rec THEN rec.kind
                    ELSE rec.wrapperType
    IN  /\ (~Idle /\ out.ok) =>
              \A i \in 1..Len(out.val.items) :
                 out.val.items[i].type = Some(tag(out.val.items[i].json[1]))
        /\ (self # None /\ self[1].cls = "Album"
                /\ "kind" \notin DOMAIN self[1].json[1]) =>
              self[1].type = Some("collection")
        /\ (op \in {"get_album", "get_albums"} /\ self[1].cls = "Album"
                /\ "kind" \notin DOMAIN self[1].json[1]) =>
              out = Ok(RetObj(self[1])) /\ sent = 0

\* get_albums() on an Album built from a record without kind returned the
\* Album itself
C10_Witness ==
    /\ op = "get_albums"
    /\ self[1].cls = "Album" /\ "kind" \notin DOMAIN self[1].json[1]
    /\ out = Ok(RetObj(self[1]))
====
